---- MODULE Spec2Model ----
(***************************************************************************)
(* Model of predict_mental_health.py, a Streamlit script.  Every browser   *)
(* session runs the whole script top to bottom on each interaction, as a   *)
(* thread of one server process.  st.session_state belongs to the session; *)
(* the working directory and numpy's global random generator belong to the *)
(* process and are shared by all sessions.  A script run is a sequence of  *)
(* steps, one per statement that touches a shared resource or calls out;   *)
(* an uncaught exception at a step ends the run.  The Gemini key is        *)
(* modelled as entered or not entered.                                     *)
(***************************************************************************)
EXTENDS Integers, Sequences, FiniteSets, TLC

\* ------------------------------------------------------------- bounds
MaxPhq == 1
RngPeriod == 3
MaxLoadFailures == 1

\* explain_instance is called without labels/top_labels: the library default
DefaultLabel == 1

\* the browser sessions served by the process
Sessions == {1, 2}

\* ---------------------------------------------------------- constants
GenderOptions == {"male", "female"}
\* classes_ of the pickled gender LabelEncoder (sorted), as found on disk
EncoderChoices == {<<"female", "male">>, <<"female">>}
\* classes_ of the pickled target encoder (sorted)
TargetClasses == <<"mild", "moderate", "severe">>
NumClasses == Len(TargetClasses)

NoKeyMsg == "Please enter a valid Google Gemini API key in the sidebar."
NoResponseMsg == "No response generated."
GeneratedText == "generated text"
NoText == ""

HandleNames == <<"xgb_model", "label_encoders", "target_encoder", "X_train", "explainer">>

NoInstance == <<-1, -1>>
NoExp == [label |-> -1, inst |-> NoInstance, draw |-> -1, score |-> -1]
NoHtml == [by |-> 0, label |-> NoText, inst |-> NoInstance, draw |-> -1]
NoPdf == [by |-> 0, label |-> NoText, explanation |-> NoText, coping |-> NoText]

EmptySessionState ==
    [xgb_model |-> 0, label_encoders |-> 0, target_encoder |-> 0,
     X_train |-> 0, explainer |-> 0, loaded |-> FALSE]
\* the widgets before any interaction (lines 12, 41, 44, 120)
DefaultInput == [gender |-> "male", phq |-> 0, key |-> FALSE, button |-> FALSE]
NoLocals ==
    [instance |-> NoInstance, prediction |-> -1, predicted_label |-> NoText,
     exp |-> NoExp, lime_html |-> NoHtml, explanation |-> NoText,
     coping_mechanisms |-> NoText]
NoOutput ==
    [label |-> NoText, lime |-> NoHtml, explanation |-> NoText,
     coping |-> NoText, report |-> NoPdf]
NoCalls == [predict |-> 0, explain |-> 0, gen1 |-> 0, gen2 |-> 0, pdf |-> 0]

VARIABLES
    trained,     \* classes_ of the gender encoder stored in label_encoders.pkl
    ss,          \* st.session_state of each session
    failures,    \* failed initialisation attempts of each session
    pc,          \* position of each session's script run
    res,         \* outcome of each session's current or last script run
    inp,         \* widget values read by the run
    local,       \* the script's variables in the run
    out,         \* what the run has put on the session's page
    calls,       \* external calls made by the run, per call site
    html,        \* file lime_explanation.html of the working directory
    pdf,         \* file mental_health_report.pdf of the working directory
    rng          \* numpy's global RandomState, used by every explainer

vars == <<trained, ss, failures, pc, res, inp, local, out, calls, html, pdf, rng>>

\* ----------------------------------------------------- pure functions
IndexOf(seq, v) == CHOOSE i \in 1..Len(seq) : seq[i] = v
Known(classes, v) == \E i \in 1..Len(classes) : classes[i] = v
\* LabelEncoder.transform: the position of the value among the sorted classes_
Transform(classes, v) == IndexOf(classes, v) - 1
\* LabelEncoder.inverse_transform: the class name at the position
InverseTransform(classes, c) == classes[c + 1]

\* the pickled classifier: a fixed function of the encoded instance
Predict(instance) == (instance[1] + instance[2]) % NumClasses

\* weighted R^2 of the surrogate fitted on the sampled neighbourhood
Fidelity(instance, draw) == (instance[2] + draw) % 2

\* explain_instance(instance[0], predict_proba): labels defaults to (1,),
\* the neighbourhood is sampled from the explainer's random state
ExplainInstance(instance, draw) ==
    [label |-> DefaultLabel, inst |-> instance, draw |-> draw,
     score |-> Fidelity(instance, draw)]

\* Explanation.as_html as written by save_to_file: class name, feature
\* values and weights; the page holds no score.  `by` tags the writer.
AsHtml(s, e) ==
    [by |-> s, label |-> InverseTransform(TargetClasses, e.label),
     inst |-> e.inst, draw |-> e.draw]

\* generate_pdf_report: the three arguments are all the report holds
PdfReport(s, predicted_label, explanation, coping_mechanisms) ==
    [by |-> s, label |-> predicted_label, explanation |-> explanation,
     coping |-> coping_mechanisms]

\* the flag assigned first instead of last
LoadPrefix_LoadedFirst(old, k, v) ==
    [h \in DOMAIN old |->
        IF h = "loaded" THEN TRUE
        ELSE IF IndexOf(HandleNames, h) <= k THEN v ELSE old[h]]

\* the first k handles of the initialisation block assigned, version v;
\* 'loaded' is the block's last assignment
LoadPrefix(old, k, v) ==
    [h \in DOMAIN old |->
        IF h = "loaded" THEN k = 5
        ELSE IF IndexOf(HandleNames, h) <= k THEN v ELSE old[h]]

\* generate_gemini_explanation with generate_content answering `answer`
GeminiResult(key, answer) ==
    IF ~key THEN NoKeyMsg
    ELSE IF answer = "none" THEN NoResponseMsg ELSE GeneratedText

NextDraw(r) == (r + 1) % RngPeriod

\* ------------------------------------------------------------ actions
Init ==
    /\ trained \in EncoderChoices
    /\ ss = [s \in Sessions |-> EmptySessionState]
    /\ failures = [s \in Sessions |-> 0]
    /\ pc = [s \in Sessions |-> "idle"]
    /\ res = [s \in Sessions |-> "none"]
    /\ inp = [s \in Sessions |-> DefaultInput]
    /\ local = [s \in Sessions |-> NoLocals]
    /\ out = [s \in Sessions |-> NoOutput]
    /\ calls = [s \in Sessions |-> NoCalls]
    /\ html = NoHtml
    /\ pdf = NoPdf
    /\ rng \in 0..(RngPeriod - 1)

\* the script goes on to `where` with its variables as in `l`
Step(s, where, l) ==
    /\ pc' = [pc EXCEPT ![s] = where]
    /\ local' = [local EXCEPT ![s] = l]
    /\ UNCHANGED <<res, inp>>

\* the script run ends (normally or by an uncaught exception): its
\* variables are gone; the widgets, the page and the outcome stay
Finish(s, outcome) ==
    /\ pc' = [pc EXCEPT ![s] = "idle"]
    /\ res' = [res EXCEPT ![s] = outcome]
    /\ local' = [local EXCEPT ![s] = NoLocals]
    /\ UNCHANGED inp

Called(s, site) == calls' = [calls EXCEPT ![s][site] = @ + 1]
Shows(s, field, v) == out' = [out EXCEPT ![s][field] = v]

\* a widget interaction reruns the script: lines 11-15, 40-54 and 120
RunStart(s, Genders, Scores, Keys, Buttons) ==
    /\ pc[s] = "idle"
    /\ \E g \in Genders, p \in Scores, k \in Keys, b \in Buttons :
          inp' = [inp EXCEPT ![s] = [gender |-> g, phq |-> p, key |-> k, button |-> b]]
    /\ local' = [local EXCEPT ![s] = NoLocals]
    /\ out' = [out EXCEPT ![s] = NoOutput]
    /\ calls' = [calls EXCEPT ![s] = NoCalls]
    /\ res' = [res EXCEPT ![s] = "running"]
    /\ pc' = [pc EXCEPT ![s] = "init"]
    /\ UNCHANGED <<trained, ss, failures, html, pdf, rng>>

\* the block without its guard: every rerun loads everything again
InitSessionState_Unguarded(s) ==
    /\ pc[s] = "init"
    /\ ss' = [ss EXCEPT ![s] = LoadPrefix(ss[s], 5, ss[s].explainer + 1)]
    /\ Step(s, "encode", local[s])
    /\ UNCHANGED <<trained, failures, out, calls, html, pdf, rng>>

\* lines 18-32: the guarded initialisation block
InitSessionState(s) ==
    /\ pc[s] = "init"
    /\ \/ /\ ss[s].loaded
          /\ Step(s, "encode", local[s])
          /\ UNCHANGED <<ss, failures>>
       \/ /\ ~ss[s].loaded
          /\ ss' = [ss EXCEPT ![s] = LoadPrefix(ss[s], 5, failures[s] + 1)]
          /\ Step(s, "encode", local[s])
          /\ UNCHANGED failures
       \/ /\ ~ss[s].loaded
          /\ failures[s] < MaxLoadFailures
          /\ \E k \in 0..4 :
                ss' = [ss EXCEPT ![s] = LoadPrefix(ss[s], k, failures[s] + 1)]
          /\ failures' = [failures EXCEPT ![s] = @ + 1]
          /\ Finish(s, "LoadError")
    /\ UNCHANGED <<trained, out, calls, html, pdf, rng>>

\* an encoder that maps an unseen value to a fresh code instead of raising
Encode_IgnoreUnknown(s) ==
    /\ pc[s] = "encode"
    /\ \/ /\ ~inp[s].button
          /\ Finish(s, "done")
       \/ /\ inp[s].button
          /\ Step(s, "predict", [local[s] EXCEPT !.instance =
                <<IF Known(trained, inp[s].gender)
                  THEN Transform(trained, inp[s].gender) ELSE Len(trained),
                  inp[s].phq>>])
    /\ UNCHANGED <<trained, ss, failures, out, calls, html, pdf, rng>>

\* lines 57-77 and 120: user_input, the label-encoder transform loop, and
\* the end of the script when the button was not pressed
Encode(s) ==
    /\ pc[s] = "encode"
    /\ \/ /\ ~Known(trained, inp[s].gender)
          /\ Finish(s, "UnknownCategory")
       \/ /\ Known(trained, inp[s].gender)
          /\ ~inp[s].button
          /\ Finish(s, "done")
       \/ /\ Known(trained, inp[s].gender)
          /\ inp[s].button
          /\ Step(s, "predict", [local[s] EXCEPT !.instance =
                         <<Transform(trained, inp[s].gender), inp[s].phq>>])
    /\ UNCHANGED <<trained, ss, failures, out, calls, html, pdf, rng>>

\* lines 121-128: predict, inverse_transform, st.success
PredictStep(s) ==
    /\ pc[s] = "predict"
    /\ Called(s, "predict")
    /\ \/ /\ Finish(s, "ClassifierError")
          /\ UNCHANGED out
       \/ LET c == Predict(local[s].instance)
              l == InverseTransform(TargetClasses, c)
          IN /\ Step(s, "explain", [local[s] EXCEPT !.prediction = c,
                                                     !.predicted_label = l])
             /\ Shows(s, "label", l)
    /\ UNCHANGED <<trained, ss, failures, html, pdf, rng>>

\* lines 130-132: explain_instance on the session's explainer
ExplainStep(s) ==
    /\ pc[s] = "explain"
    /\ Called(s, "explain")
    /\ rng' = NextDraw(rng)
    /\ \/ Finish(s, "ExplainError")
       \/ Step(s, "save", [local[s] EXCEPT !.exp =
              ExplainInstance(local[s].instance, rng)])
    /\ UNCHANGED <<trained, ss, failures, out, html, pdf>>

\* lines 134-136: exp.save_to_file("lime_explanation.html")
SaveToFile(s) ==
    /\ pc[s] = "save"
    /\ \/ /\ Finish(s, "SaveError")
          /\ UNCHANGED html
       \/ /\ html' = AsHtml(s, local[s].exp)
          /\ Step(s, "read", local[s])
    /\ UNCHANGED <<trained, ss, failures, out, calls, pdf, rng>>

\* lines 138-141: open, read, st.download_button
ReadHtml(s) ==
    /\ pc[s] = "read"
    /\ \/ /\ html = NoHtml
          /\ Finish(s, "FileNotFound")
          /\ UNCHANGED out
       \/ /\ html # NoHtml
          /\ Finish(s, "ReadError")
          /\ UNCHANGED out
       \/ /\ html # NoHtml
          /\ Step(s, "remove", [local[s] EXCEPT !.lime_html = html])
          /\ Shows(s, "lime", html)
    /\ UNCHANGED <<trained, ss, failures, calls, html, pdf, rng>>

\* the cleanup left out
RemoveHtml_Skip(s) ==
    /\ pc[s] = "remove"
    /\ Step(s, "gemini1", local[s])
    /\ UNCHANGED <<trained, ss, failures, out, calls, html, pdf, rng>>

\* line 143: os.remove("lime_explanation.html")
RemoveHtml(s) ==
    /\ pc[s] = "remove"
    /\ \/ /\ html = NoHtml
          /\ Finish(s, "FileNotFound")
          /\ UNCHANGED html
       \/ /\ html # NoHtml
          /\ html' = NoHtml
          /\ Step(s, "gemini1", local[s])
    /\ UNCHANGED <<trained, ss, failures, out, calls, pdf, rng>>

\* lines 145-151: the natural-language explanation
GeminiExplanation(s) ==
    /\ pc[s] = "gemini1"
    /\ \/ /\ ~inp[s].key
          /\ Step(s, "gemini2", [local[s] EXCEPT !.explanation = GeminiResult(FALSE, "")])
          /\ Shows(s, "explanation", GeminiResult(FALSE, ""))
          /\ UNCHANGED calls
       \/ /\ inp[s].key
          /\ Called(s, "gen1")
          /\ \/ /\ Finish(s, "GenerationError")
                /\ UNCHANGED out
             \/ \E answer \in {"none", "text"} :
                   /\ Step(s, "gemini2", [local[s] EXCEPT !.explanation =
                                              GeminiResult(TRUE, answer)])
                   /\ Shows(s, "explanation", GeminiResult(TRUE, answer))
    /\ UNCHANGED <<trained, ss, failures, html, pdf, rng>>

\* lines 153-158: the coping mechanisms
GeminiCoping(s) ==
    /\ pc[s] = "gemini2"
    /\ \/ /\ ~inp[s].key
          /\ Step(s, "pdf", [local[s] EXCEPT !.coping_mechanisms = GeminiResult(FALSE, "")])
          /\ Shows(s, "coping", GeminiResult(FALSE, ""))
          /\ UNCHANGED calls
       \/ /\ inp[s].key
          /\ Called(s, "gen2")
          /\ \/ /\ Finish(s, "GenerationError")
                /\ UNCHANGED out
             \/ \E answer \in {"none", "text"} :
                   /\ Step(s, "pdf", [local[s] EXCEPT !.coping_mechanisms =
                                          GeminiResult(TRUE, answer)])
                   /\ Shows(s, "coping", GeminiResult(TRUE, answer))
    /\ UNCHANGED <<trained, ss, failures, html, pdf, rng>>

\* lines 160-161 and 98-117: generate_pdf_report
WritePdf(s) ==
    /\ pc[s] = "pdf"
    /\ Called(s, "pdf")
    /\ \/ /\ Finish(s, "ReportError")
          /\ UNCHANGED pdf
       \/ /\ pdf' = PdfReport(s, local[s].predicted_label, local[s].explanation,
                              local[s].coping_mechanisms)
          /\ Step(s, "offer", local[s])
    /\ UNCHANGED <<trained, ss, failures, out, html, rng>>

\* lines 163-167: open the report, st.download_button, end of the script
OfferPdf(s) ==
    /\ pc[s] = "offer"
    /\ \/ /\ pdf = NoPdf
          /\ Finish(s, "FileNotFound")
          /\ UNCHANGED out
       \/ /\ pdf # NoPdf
          /\ Shows(s, "report", pdf)
          /\ Finish(s, "done")
    /\ UNCHANGED <<trained, ss, failures, calls, html, pdf, rng>>

Handler(s) ==
    \/ InitSessionState(s)
    \/ Encode(s)
    \/ PredictStep(s)
    \/ ExplainStep(s)
    \/ SaveToFile(s)
    \/ ReadHtml(s)
    \/ RemoveHtml(s)
    \/ GeminiExplanation(s)
    \/ GeminiCoping(s)
    \/ WritePdf(s)
    \/ OfferPdf(s)

\* one session, requests one after the other, every input
Next ==
    \/ RunStart(1, GenderOptions, 0..MaxPhq, BOOLEAN, BOOLEAN)
    \/ Handler(1)

Spec == Init /\ [][Next]_vars

\* all sessions at once, every one pressing the button with one input
InitPar == Init /\ trained = <<"female", "male">>

NextPar ==
    \E s \in Sessions :
        \/ RunStart(s, {"female"}, {0}, {FALSE}, {TRUE})
        \/ Handler(s)

SpecPar == InitPar /\ [][NextPar]_vars

\* ------------------------------------------------------------- claims
Failed(s) == res[s] \notin {"none", "running", "done"}
Requested(s) == inp[s].button
Completed(s) == res[s] = "done" /\ Requested(s)
FallbackTexts == {NoKeyMsg, NoResponseMsg}

\* C1: concurrent requests do not interfere: every request offers for
\* download the explanation file and the report file it wrote itself, and
\* none fails on a file another request removed
C1_RequestsIsolated ==
    \A s \in Sessions :
        /\ out[s].lime # NoHtml => out[s].lime.by = s
        /\ out[s].report # NoPdf => out[s].report.by = s
        /\ res[s] # "FileNotFound"

\* C2: a request is all-or-nothing: a request that failed at any step has
\* exposed no prediction, explanation or download
C2_AllOrNothing ==
    \A s \in Sessions : Failed(s) => out[s] = NoOutput

\* C3: the class an explanation is fitted to is the class the classifier
\* predicted for the same instance
C3_ExplainsPredictedClass ==
    \A s \in Sessions :
        local[s].exp # NoExp => local[s].exp.label = local[s].prediction

\* C4: explanations are deterministic and history-independent: two requests
\* over the same instance are given the same explanation
C4_SameInstanceSameExplanation ==
    \A s, t \in Sessions :
        (/\ local[s].exp # NoExp
         /\ local[t].exp # NoExp
         /\ local[s].exp.inst = local[t].exp.inst)
        => local[s].exp = local[t].exp

C6_EncodingAbortsRun ==
    \A s \in Sessions :
        /\ pc[s] \in {"init", "encode"} => calls[s] = NoCalls
        /\ calls[s] # NoCalls => Known(trained, inp[s].gender)
        /\ res[s] = "UnknownCategory" => calls[s] = NoCalls /\ out[s] = NoOutput
        /\ (~Known(trained, inp[s].gender) /\ ss[s].loaded /\ pc[s] = "idle"
               /\ res[s] # "none") => res[s] = "UnknownCategory"

C6_Witness ==
    /\ res[1] = "UnknownCategory"
    /\ Requested(1)
    /\ calls[1] = NoCalls

\* C7: every call site is tried at most once in a request, and no failure
\* or unavailability of the text service is turned into a text that is
\* shown or written to the report
C7_NoSwallowedFailure ==
    \A s \in Sessions :
        /\ \A site \in DOMAIN calls[s] : calls[s][site] <= 1
        /\ out[s].explanation \notin FallbackTexts
        /\ out[s].coping \notin FallbackTexts
        /\ out[s].report.explanation \notin FallbackTexts
        /\ out[s].report.coping \notin FallbackTexts

\* C8: whatever carries an explanation to the user carries its fidelity
\* score too: the downloadable page and the report
C8_FidelitySurfaced ==
    \A s \in Sessions :
        /\ out[s].lime # NoHtml => "score" \in DOMAIN out[s].lime
        /\ out[s].report # NoPdf => "score" \in DOMAIN out[s].report

\* C9: 'loaded' is set only with all five handles present, a failed
\* initialisation leaves it unset and the next rerun loads all five again,
\* a script gets past the block only with the flag set, and once it is set
\* the block does not run again
C9_Handles == {"xgb_model", "label_encoders", "target_encoder", "X_train", "explainer"}

C9_GuardedInitialisation ==
    /\ [](\A s \in Sessions :
            /\ ss[s].loaded => \A h \in C9_Handles : ss[s][h] # 0
            /\ res[s] = "LoadError" => ~ss[s].loaded
            /\ pc[s] \notin {"idle", "init"} => ss[s].loaded
            /\ calls[s] # NoCalls => ss[s].loaded)
    /\ [][\A s \in Sessions :
            /\ ss[s].loaded => ss'[s].loaded /\ failures'[s] = failures[s]
            /\ ss[s].loaded => \A h \in C9_Handles : ss'[s][h] = ss[s][h]
            /\ (~ss[s].loaded /\ pc[s] = "init" /\ pc'[s] = "encode")
                  => \A h \in C9_Handles : ss'[s][h] = failures[s] + 1]_vars

C9_Witness ==
    /\ ss[1].loaded
    /\ failures[1] = 1
    /\ Completed(1)

\* C10: with one session, a finished request leaves no lime_explanation.html
\* and a mental_health_report.pdf holding its own report; the page is gone
\* before the text service or the report writer is called; the report is
\* never removed; a request that fails in reading the page back leaves it
C10_FileLifecycle ==
    /\ [](/\ Completed(1) =>
               /\ html = NoHtml
               /\ pdf = PdfReport(1, out[1].label, out[1].explanation, out[1].coping)
               /\ out[1].report = pdf
          /\ pc[1] \in {"gemini1", "gemini2", "pdf", "offer"} => html = NoHtml
          /\ calls[1].gen1 + calls[1].gen2 + calls[1].pdf > 0 => html = NoHtml
          /\ res[1] = "ReadError" => html # NoHtml /\ html.by = 1)
    /\ [][pdf # NoPdf => pdf' # NoPdf]_vars

C10_Witness ==
    /\ Completed(1)
    /\ html = NoHtml
    /\ pdf.by = 1
    /\ out[1].explanation = GeneratedText
====
